---- MODULE Spec2Model ----
(***************************************************************************)
(* The score-report dashboard of src/app.py: one button handler that loads *)
(* a cohort table through a time-bounded cache, filters it by (name,       *)
(* email), and renders ten distribution charts and a nine-row summary.     *)
(*                                                                         *)
(* Text is modelled as a sequence of one-character strings so that         *)
(* trimming, digit parsing and substring tests are computed, not assumed.  *)
(* Korean column names are romanised: jeomsu = score, chongjeom = total,   *)
(* geungeo = rationale, ireum = name, imeil = email.                       *)
(***************************************************************************)
EXTENDS Integers, Sequences, FiniteSets, TLC

\* ------------------------------------------------------------------ bounds
MaxRows == 2
TickSeconds == 300

\* st.cache_data(ttl=600)
TTL == 600

\* ------------------------------------------------------------------ text
IsSpace(c) == c \in {" ", "\t"}

RECURSIVE LStrip(_)
LStrip(s) ==
  IF s = <<>> THEN s
  ELSE IF IsSpace(Head(s)) THEN LStrip(Tail(s)) ELSE s

RECURSIVE RStrip(_)
RStrip(s) ==
  IF s = <<>> THEN s
  ELSE IF IsSpace(s[Len(s)]) THEN RStrip(SubSeq(s, 1, Len(s) - 1)) ELSE s

\* a plausible slip: lstrip() written for strip()
StripLeftOnly(s) == LStrip(s)

\* str.strip(): whitespace removed from both ends
Strip(s) == RStrip(LStrip(s))

Digits == <<"0", "1", "2", "3", "4", "5", "6", "7", "8", "9">>

IsDigit(c) == \E d \in 1..Len(Digits) : Digits[d] = c

DigitVal(c) == (CHOOSE d \in 1..Len(Digits) : Digits[d] = c) - 1

\* substring test on a text split into tokens: `tok in text`
Contains(text, tok) == \E i \in 1..Len(text) : text[i] = tok

\* ------------------------------------------------------------------ columns
question_indices == <<"1-1", "1-2", "1-3", "2-1", "2-2", "2-3", "3-1", "3-2", "3-3">>

NameCol == <<"ireum">>
EmailCol == <<"imeil">>
TotalCol == <<"chongjeom">>
ScoreCol(idx) == <<idx, " ", "jeomsu">>
AnswerCol(idx) == <<idx>>
RationaleCol(idx) == <<idx, " ", "geungeo">>

score_columns ==
  <<TotalCol>> \o [i \in 1..Len(question_indices) |-> ScoreCol(question_indices[i])]

\* the column vocabulary the sheet is expected to carry
ExpectedColumns ==
  {NameCol, EmailCol, TotalCol}
    \cup {ScoreCol(question_indices[i]) : i \in 1..Len(question_indices)}
    \cup {AnswerCol(question_indices[i]) : i \in 1..Len(question_indices)}
    \cup {RationaleCol(question_indices[i]) : i \in 1..Len(question_indices)}

\* '점수' in col or '총점' in col
IsScoreLike(col) == Contains(col, "jeomsu") \/ Contains(col, "chongjeom")

\* ------------------------------------------------------------------ numeric coercion
NaN == [nan |-> TRUE, val |-> 0]
Num(v) == [nan |-> FALSE, val |-> v]

RECURSIVE ParseDigits(_, _)
ParseDigits(cell, acc) ==
  IF cell = <<>> THEN acc
  ELSE ParseDigits(Tail(cell), acc * 10 + DigitVal(Head(cell)))

\* a plausible slip: unparseable cells filled with 0 instead of missing
ToNumericZeroFill(cell) ==
  IF cell # <<>> /\ \A i \in 1..Len(cell) : IsDigit(cell[i])
  THEN Num(ParseDigits(cell, 0))
  ELSE Num(0)

\* pd.to_numeric(..., errors='coerce') on one cell (unsigned decimal texts;
\* anything else in the modelled cell pool is not a number)
ToNumeric(cell) ==
  IF cell # <<>> /\ \A i \in 1..Len(cell) : IsDigit(cell[i])
  THEN Num(ParseDigits(cell, 0))
  ELSE NaN

\* Series.dropna(): the non-missing values, order kept
RECURSIVE DropNA(_)
DropNA(col) ==
  IF col = <<>> THEN <<>>
  ELSE IF Head(col).nan THEN DropNA(Tail(col))
  ELSE <<Head(col)>> \o DropNA(Tail(col))

\* ------------------------------------------------------------------ frames
NoFrame == [columns |-> {}, rows |-> <<>>]

\* the type conversion loop of load_data_with_diagnostics
CoerceFrame(t) ==
  [columns |-> t.columns,
   rows |-> [i \in 1..Len(t.rows) |->
              [c \in t.columns |->
                IF IsScoreLike(c) THEN ToNumeric(t.rows[i][c]) ELSE t.rows[i][c]]]]

\* df[col]
Column(df, col) == [i \in 1..Len(df.rows) |-> df.rows[i][col]]

\* ------------------------------------------------------------------ sheet store
\* SHEET_OPTIONS, keys and values alike; the model reads the first two
SHEET_OPTIONS ==
  <<"1beon buryeok", "2beon anggeum", "3beon yeolpyeonghyeong",
    "4beon wonja", "5beon omokgeoul", "6beon mildo">>

Sheets == {SHEET_OPTIONS[1], SHEET_OPTIONS[2]}

\* respondents a sheet may hold: 2 is 1 up to surrounding whitespace,
\* 3 differs from 1 in letter case, 4 by an inner character
RowIds == 1..4

StoredName(k) ==
  CASE k = 1 -> <<"B", "o", "b">>
    [] k = 2 -> <<" ", "B", "o", "b", "\t">>
    [] k = 3 -> <<"b", "o", "b">>
    [] OTHER -> <<"B", "o", " ", "b">>

StoredEmail(k) ==
  CASE k = 2 -> <<"b", "@", "y", " ">>
    [] OTHER -> <<"b", "@", "y">>

NotANumber == <<"N", "/", "A">>

\* the raw text of respondent k's cell in the j-th score column
RawScore(k, j) ==
  IF j = 1
  THEN CASE k = 1 -> <<"8", "7">>
         [] k = 2 -> NotANumber
         [] k = 3 -> <<"9", "2">>
         [] OTHER -> <<"7", "5">>
  ELSE IF (k + j) % 4 = 0 THEN NotANumber
  ELSE IF (k + j) % 7 = 0 THEN <<>>
  ELSE <<Digits[k + 1], Digits[j]>>

CellOf(k, c) ==
  IF c = NameCol THEN StoredName(k)
  ELSE IF c = EmailCol THEN StoredEmail(k)
  ELSE IF IsScoreLike(c)
       THEN RawScore(k, CHOOSE j \in 1..Len(score_columns) : score_columns[j] = c)
  ELSE c \o <<"text", Digits[k + 1]>>

StoredRow(k, cols) == [c \in cols |-> CellOf(k, c)]

\* sheet layouts: complete, or with one expected column absent
ColumnSets ==
  {ExpectedColumns,
   ExpectedColumns \ {NameCol},
   ExpectedColumns \ {ScoreCol("1-2")},
   ExpectedColumns \ {RationaleCol("3-3")}}

TablesUpTo(n, colsets) ==
  UNION {{[columns |-> cs, rows |-> [i \in 1..len |-> StoredRow(ks[i], cs)]] :
            ks \in [1..len -> RowIds], cs \in colsets} : len \in 0..n}

\* ------------------------------------------------------------------ store conditions
MsgNoPermission == <<"The caller does not have permission">>
MsgApiNotUsed ==
  <<"Google Sheets ", "API has not been used", " in project 1 before or it is disabled.">>
MsgNotEnabled == <<"Google Drive API ", "is not enabled", " for this project.">>

CondOk ==
  [kind |-> "ok", decodable |-> TRUE, error |-> "absent", status |-> "None", message |-> <<>>]

ApiConds ==
  {[kind |-> "api", decodable |-> FALSE, error |-> "absent", status |-> "None", message |-> <<>>],
   [kind |-> "api", decodable |-> TRUE, error |-> "absent", status |-> "None", message |-> <<>>],
   [kind |-> "api", decodable |-> TRUE, error |-> "nonobject", status |-> "None", message |-> <<>>],
   [kind |-> "api", decodable |-> TRUE, error |-> "object",
    status |-> "PERMISSION_DENIED", message |-> MsgNoPermission],
   [kind |-> "api", decodable |-> TRUE, error |-> "object",
    status |-> "PERMISSION_DENIED", message |-> MsgApiNotUsed],
   [kind |-> "api", decodable |-> TRUE, error |-> "object",
    status |-> "FAILED_PRECONDITION", message |-> MsgNotEnabled]}

Conds ==
  {CondOk,
   [CondOk EXCEPT !.kind = "spreadsheet_not_found"],
   [CondOk EXCEPT !.kind = "other"]}
  \cup ApiConds

\* ------------------------------------------------------------------ load_data_with_diagnostics
\* the if / elif / else of the APIError handler
ApiRemedy(status, message) ==
  IF status = "PERMISSION_DENIED" THEN "remedy:share_sheet"
  ELSE IF Contains(message, "API has not been used") \/ Contains(message, "is not enabled")
  THEN "remedy:enable_api"
  ELSE "remedy:new_key"

LoadReturn(isNone, df, msgs) ==
  [raised |-> FALSE, isNone |-> isNone, df |-> df, msgs |-> msgs]

\* an exception that leaves the function: nothing returned, nothing shown by it
LoadRaise == [raised |-> TRUE, isNone |-> TRUE, df |-> NoFrame, msgs |-> <<>>]

\* except APIError as e: e.response.json() and the chained .get() calls run
\* inside the handler, where no later except clause applies
ApiErrorHandler(c) ==
  IF ~c.decodable THEN LoadRaise
  ELSE IF c.error = "nonobject" THEN LoadRaise
  ELSE LET error_status == IF c.error = "object" THEN c.status ELSE "None"
           error_message == IF c.error = "object" THEN c.message ELSE <<>>
       IN LoadReturn(TRUE, NoFrame, <<"error:api", ApiRemedy(error_status, error_message)>>)

\* the function body under condition c of the store holding table t
load_data_with_diagnostics(c, t) ==
  CASE c.kind = "ok" -> LoadReturn(FALSE, CoerceFrame(t), <<>>)
    [] c.kind = "spreadsheet_not_found" ->
         LoadReturn(TRUE, NoFrame, <<"error:spreadsheet_not_found", "remedy:check_name">>)
    [] c.kind = "api" -> ApiErrorHandler(c)
    [] OTHER -> LoadReturn(TRUE, NoFrame, <<"error:unexpected">>)

\* ------------------------------------------------------------------ main logic
\* a plausible slip: | written for & in the mask
RowMatchesEither(row, user_name, user_email) ==
  \/ Strip(row[NameCol]) = Strip(user_name)
  \/ Strip(row[EmailCol]) = Strip(user_email)

\* one row's test in the boolean mask of the filter
RowMatches(row, user_name, user_email) ==
  /\ Strip(row[NameCol]) = Strip(user_name)
  /\ Strip(row[EmailCol]) = Strip(user_email)

\* df[mask]: the index labels of the selected rows, table order kept
RECURSIVE FilterRows(_, _, _, _)
FilterRows(df, user_name, user_email, i) ==
  IF i > Len(df.rows) THEN <<>>
  ELSE (IF RowMatches(df.rows[i], user_name, user_email) THEN <<i>> ELSE <<>>)
         \o FilterRows(df, user_name, user_email, i + 1)

\* a plausible slip: iloc[-1]
UserSeriesLast(df, ud) == df.rows[ud[Len(ud)]]

\* user_data.iloc[0]
UserSeries(df, ud) == df.rows[ud[1]]

\* a plausible slip: the box drawn from the matched row only
ChartOfMatchedOnly(df, us, col) ==
  [title |-> col, box |-> DropNA(<<us[col]>>), point |-> us[col]]

\* one figure: go.Box over the whole column, go.Scatter of the respondent's value
Chart(df, us, col) ==
  [title |-> col, box |-> DropNA(Column(df, col)), point |-> us[col]]

\* how many figures are plotted before a column access fails
ChartsPlotted(df) ==
  IF \A i \in 1..Len(score_columns) : score_columns[i] \in df.columns
  THEN Len(score_columns)
  ELSE (CHOOSE i \in 1..Len(score_columns) :
          /\ score_columns[i] \notin df.columns
          /\ \A j \in 1..(i - 1) : score_columns[j] \in df.columns) - 1

\* a plausible slip: answer and rationale taken from each other's column
SummaryRowSwapped(us, idx) ==
  [label |-> idx, score |-> us[ScoreCol(idx)],
   answer |-> us[RationaleCol(idx)], rationale |-> us[AnswerCol(idx)]]

\* one summary_data.append({...})
SummaryRow(us, idx) ==
  [label |-> idx, score |-> us[ScoreCol(idx)],
   answer |-> us[AnswerCol(idx)], rationale |-> us[RationaleCol(idx)]]

SummaryColumnsPresent(df) ==
  \A i \in 1..Len(question_indices) :
    {ScoreCol(question_indices[i]), AnswerCol(question_indices[i]),
     RationaleCol(question_indices[i])} \subseteq df.columns

Rendered(outcome_, msgs, ud, charts_, summary_) ==
  [outcome |-> outcome_, messages |-> msgs, user_data |-> ud,
   charts |-> charts_, summary |-> summary_]

\* the branch taken once a table has been obtained (df is not None)
BuildReport(df, user_name, user_email) ==
  IF df.rows = <<>>
  THEN Rendered("warn_empty", <<"warning:empty">>, <<>>, <<>>, <<>>)
  ELSE IF ~({NameCol, EmailCol} \subseteq df.columns)
  THEN Rendered("crash", <<>>, <<>>, <<>>, <<>>)
  ELSE LET ud == FilterRows(df, user_name, user_email, 1) IN
    IF ud = <<>>
    THEN Rendered("not_found", <<"error:no_match">>, ud, <<>>, <<>>)
    ELSE LET us == UserSeries(df, ud)
             plotted == [i \in 1..ChartsPlotted(df) |-> Chart(df, us, score_columns[i])]
         IN IF Len(plotted) < Len(score_columns)
            THEN Rendered("crash", <<"success:header">>, ud, plotted, <<>>)
            ELSE IF ~SummaryColumnsPresent(df)
            THEN Rendered("crash", <<"success:header">>, ud, plotted, <<>>)
            ELSE Rendered("ok", <<"success:header">>, ud, plotted,
                          [i \in 1..Len(question_indices) |->
                             SummaryRow(us, question_indices[i])])

\* ------------------------------------------------------------------ state
VARIABLES
  store,      \* the table the sheet store holds (raw text cells)
  cache,      \* st.cache_data entries of load_data_with_diagnostics, by sheet
  cond,       \* the store's condition during the last request
  req,        \* the last request: sheet, name, email
  loaded,     \* the last request ran the body of load_data_with_diagnostics
  served,     \* the last request obtained a table (df is not None)
  outcome,    \* how the last request ended
  messages,   \* messages shown by the last request
  user_data,  \* index labels of the rows the filter selected
  charts,     \* figures plotted by the last request
  summary     \* summary rows shown by the last request

vars == <<store, cache, cond, req, loaded, served, outcome, messages,
          user_data, charts, summary>>

NoEntry == [present |-> FALSE, isNone |-> FALSE, df |-> NoFrame, msgs |-> <<>>, age |-> 0]

InputNames ==
  {<<>>, <<"B", "o", "b">>, <<"B", "o", "b", " ">>, <<"b", "o", "b">>, <<"A", "n", "n">>}

InputEmails == {<<>>, <<"b", "@", "y">>, <<"\t", "b", "@", "y">>}

InitRest ==
  /\ cache = [s \in Sheets |-> NoEntry]
  /\ cond = CondOk
  /\ req = [sheet |-> "", name |-> <<>>, email |-> <<>>]
  /\ loaded = FALSE
  /\ served = FALSE
  /\ outcome = "idle"
  /\ messages = <<>>
  /\ user_data = <<>>
  /\ charts = <<>>
  /\ summary = <<>>

\* the button handler, run to its end, with the store in condition c
Analyze(s, user_name, user_email, c) ==
  LET gate == user_name = <<>> \/ user_email = <<>>
      hit == cache[s].present
      lr == load_data_with_diagnostics(c, store)
      crashed == ~hit /\ lr.raised
      entry == IF hit THEN cache[s]
               ELSE [present |-> TRUE, isNone |-> lr.isNone, df |-> lr.df,
                     msgs |-> lr.msgs, age |-> 0]
      res == IF gate THEN Rendered("warn_input", <<"warning:input">>, <<>>, <<>>, <<>>)
             ELSE IF crashed THEN Rendered("crash", <<>>, <<>>, <<>>, <<>>)
             ELSE IF entry.isNone THEN Rendered("load_failed", entry.msgs, <<>>, <<>>, <<>>)
             ELSE BuildReport(entry.df, user_name, user_email)
  IN /\ req' = [sheet |-> s, name |-> user_name, email |-> user_email]
     /\ cond' = c
     /\ cache' = IF gate \/ hit \/ crashed THEN cache ELSE [cache EXCEPT ![s] = entry]
     /\ loaded' = (~gate /\ ~hit)
     /\ served' = (~gate /\ ~crashed /\ ~entry.isNone)
     /\ outcome' = res.outcome
     /\ messages' = res.messages
     /\ user_data' = res.user_data
     /\ charts' = res.charts
     /\ summary' = res.summary
     /\ UNCHANGED store

\* time passes: entries age, and those that reach the ttl are dropped
Tick ==
  /\ \E s \in Sheets : cache[s].present
  /\ cache' = [s \in Sheets |->
                IF cache[s].present /\ cache[s].age + TickSeconds < TTL
                THEN [cache[s] EXCEPT !.age = @ + TickSeconds]
                ELSE NoEntry]
  /\ UNCHANGED <<store, cond, req, loaded, served, outcome, messages,
                 user_data, charts, summary>>

\* requests against a store that may fail; the sheet is empty or holds one
\* respondent, with the expected columns or with one of them absent
FaultTables ==
  {[columns |-> ExpectedColumns, rows |-> <<>>]}
    \cup {[columns |-> cs, rows |-> <<StoredRow(1, cs)>>] : cs \in ColumnSets}

Init ==
  /\ store \in FaultTables
  /\ InitRest

Next ==
  \/ \E s \in Sheets, n \in {<<>>, <<"B", "o", "b">>}, e \in {<<"b", "@", "y">>},
        c \in Conds : Analyze(s, n, e, c)
  \/ Tick

Spec == Init /\ [][Next]_vars

\* report building over every table of up to MaxRows rows, store healthy
InitReport ==
  /\ store \in TablesUpTo(MaxRows, ColumnSets)
  /\ InitRest

NextReport ==
  \E n \in InputNames, e \in InputEmails : Analyze(SHEET_OPTIONS[1], n, e, CondOk)

SpecReport == InitReport /\ [][NextReport]_vars

\* ------------------------------------------------------------------ vocabulary of the claims
\* t is s with its leading and trailing whitespace removed
IsTrimOf(t, s) ==
  \E i \in 0..Len(s), j \in 0..Len(s) :
    /\ i + j <= Len(s)
    /\ t = SubSeq(s, i + 1, Len(s) - j)
    /\ \A p \in 1..i : IsSpace(s[p])
    /\ \A p \in (Len(s) - j + 1)..Len(s) : IsSpace(s[p])
    /\ (t = <<>> \/ (~IsSpace(t[1]) /\ ~IsSpace(t[Len(t)])))

\* a and b are equal once trimmed, character for character
SameTrimmed(a, b) ==
  \E i \in 0..Len(a), j \in 0..Len(a) :
    /\ i + j <= Len(a)
    /\ IsTrimOf(SubSeq(a, i + 1, Len(a) - j), a)
    /\ IsTrimOf(SubSeq(a, i + 1, Len(a) - j), b)

RECURSIVE Pow10(_)
Pow10(n) == IF n = 0 THEN 1 ELSE 10 * Pow10(n - 1)

RECURSIVE PlaceSum(_, _)
PlaceSum(cell, i) ==
  IF i > Len(cell) THEN 0
  ELSE DigitVal(cell[i]) * Pow10(Len(cell) - i) + PlaceSum(cell, i + 1)

IsNumeral(cell) == cell # <<>> /\ \A i \in 1..Len(cell) : cell[i] \in {Digits[d] : d \in 1..10}

\* what a stored score cell reads as: its decimal value, or missing
Reading(cell) ==
  IF IsNumeral(cell) THEN [nan |-> FALSE, val |-> PlaceSum(cell, 1)]
  ELSE [nan |-> TRUE, val |-> 0]

\* the stored row i is the respondent asked for
Asked(i) ==
  /\ SameTrimmed(store.rows[i][NameCol], req.name)
  /\ SameTrimmed(store.rows[i][EmailCol], req.email)

AskedRows == {i \in 1..Len(store.rows) : Asked(i)}

FirstAsked == CHOOSE i \in AskedRows : \A j \in AskedRows : i <= j

SelectedRows == {user_data[p] : p \in 1..Len(user_data)}

\* the request reached the filter: a non-empty table with both identity columns
MatchingRan ==
  /\ served
  /\ store.rows # <<>>
  /\ {NameCol, EmailCol} \subseteq store.columns

\* box holds exactly the non-missing readings of column col over all stored
\* rows, in row order
IsColumnDistribution(box, col) ==
  LET present == {i \in 1..Len(store.rows) : ~Reading(store.rows[i][col]).nan} IN
    /\ Len(box) = Cardinality(present)
    /\ \E f \in [1..Len(box) -> present] :
         /\ \A p, q \in 1..Len(box) : p < q => f[p] < f[q]
         /\ \A p \in 1..Len(box) : box[p] = Reading(store.rows[f[p]][col])

C2_NoMatchIsNotFound ==
  (MatchingRan /\ AskedRows = {}) =>
    /\ outcome = "not_found"
    /\ Contains(messages, "error:no_match")
    /\ charts = <<>>
    /\ summary = <<>>

\* a not-found request on a table that holds the name in another letter case
C2_Witness ==
  /\ MatchingRan
  /\ AskedRows = {}
  /\ outcome = "not_found"
  /\ req.name = <<"b", "o", "b">>
  /\ \E i \in 1..Len(store.rows) : store.rows[i][NameCol] = <<"B", "o", "b">>

\* ------------------------------------------------------------------ C3
\* C3: when several rows are the respondent asked for (and the sheet carries
\* its expected columns), the request succeeds without an error message and
\* every highlighted point and every summary field comes from the first such
\* row in table order.
C3_FirstMatchWins ==
  (MatchingRan /\ Cardinality(AskedRows) > 1 /\ ExpectedColumns \subseteq store.columns) =>
    /\ outcome = "ok"
    /\ \A m \in 1..Len(messages) : messages[m] = "success:header"
    /\ \A k \in 1..Len(charts) :
         charts[k].point = Reading(store.rows[FirstAsked][charts[k].title])
    /\ \A q \in 1..Len(summary) :
         /\ summary[q].score = Reading(store.rows[FirstAsked][ScoreCol(summary[q].label)])
         /\ summary[q].answer = store.rows[FirstAsked][AnswerCol(summary[q].label)]
         /\ summary[q].rationale = store.rows[FirstAsked][RationaleCol(summary[q].label)]

\* a successful request with two matching rows of different content
C3_Witness ==
  /\ outcome = "ok"
  /\ Cardinality(AskedRows) > 1
  /\ \E j \in AskedRows : store.rows[j] # store.rows[FirstAsked]
  /\ Len(charts) > 0
  /\ Len(summary) > 0

\* ------------------------------------------------------------------ C4
\* C4: loading never fails on a score cell: every cell of a column whose name
\* contains the score or total marker reads as its number when it is a
\* numeral and as missing otherwise, and every box drawn holds exactly the
\* non-missing values of its column in row order.
C4_CoercionAndDropMissing ==
  /\ loaded => served
  /\ served =>
       \A c \in store.columns, i \in 1..Len(store.rows) :
         (Contains(c, "jeomsu") \/ Contains(c, "chongjeom")) =>
           cache[req.sheet].df.rows[i][c] = Reading(store.rows[i][c])
  /\ \A k \in 1..Len(charts) : IsColumnDistribution(charts[k].box, charts[k].title)

\* a box that left out a non-number cell and kept the numbers beside it
C4_Witness ==
  /\ outcome = "ok"
  /\ \E k \in 1..Len(charts) :
       /\ Len(charts[k].box) > 0
       /\ Len(charts[k].box) < Len(store.rows)
       /\ \E i \in 1..Len(store.rows) : store.rows[i][charts[k].title] = NotANumber

\* ------------------------------------------------------------------ C5
\* C5: a successful report has one chart per configured score column, the
\* total first and then the nine question scores in order; each chart's box
\* is the column's non-missing values over all rows of the table and its
\* point is the matched respondent's value in that column.
C5_OneSeriesPerScoreColumn ==
  outcome = "ok" =>
    /\ Len(charts) = 10
    /\ charts[1].title = TotalCol
    /\ \A k \in 2..Len(charts) : charts[k].title = <<question_indices[k - 1], " ", "jeomsu">>
    /\ \A k \in 1..Len(charts) :
         /\ IsColumnDistribution(charts[k].box, charts[k].title)
         /\ charts[k].point = Reading(store.rows[FirstAsked][charts[k].title])

\* a successful report for one respondent of two whose boxes hold both rows
C5_Witness ==
  /\ outcome = "ok"
  /\ Cardinality(AskedRows) = 1
  /\ Len(store.rows) > 1
  /\ \E k \in 1..Len(charts) : Len(charts[k].box) > 1

\* ------------------------------------------------------------------ C6
\* C6: a successful report has nine summary rows, one per question index in
\* configured order, and the row of index idx carries the matched
\* respondent's score, answer and rationale from the columns of that index.
C6_SummaryRowPerQuestion ==
  outcome = "ok" =>
    /\ Len(summary) = 9
    /\ \A q \in 1..Len(summary) :
         /\ summary[q].label = question_indices[q]
         /\ summary[q].score =
              Reading(store.rows[FirstAsked][<<question_indices[q], " ", "jeomsu">>])
         /\ summary[q].answer = store.rows[FirstAsked][<<question_indices[q]>>]
         /\ summary[q].rationale =
              store.rows[FirstAsked][<<question_indices[q], " ", "geungeo">>]

\* a successful report whose rows tell answer from rationale and one
\* question from the next
C6_Witness ==
  /\ outcome = "ok"
  /\ Len(summary) = 9
  /\ summary[1].answer # summary[1].rationale
  /\ summary[1].answer # summary[2].answer

\* ------------------------------------------------------------------ C7
\* C7: a request in which the load fails or an expected column is absent
\* when the report reads it shows a classified message and produces no chart
\* and no summary row.
C7_FaultFailsWholeBuild ==
  (outcome = "load_failed" \/ (outcome = "crash" /\ served)) =>
    /\ \E m \in 1..Len(messages) :
         messages[m] \in {"error:spreadsheet_not_found", "error:api", "error:unexpected"}
    /\ charts = <<>>
    /\ summary = <<>>

\* ------------------------------------------------------------------ C8
\* C8: whenever the load runs against a failing store, the function returns
\* no table after showing a message and the request ends in a reported
\* error, not in an uncaught exception.
C8_NoUncaughtStoreFailure ==
  (loaded /\ cond.kind # "ok") =>
    /\ outcome = "load_failed"
    /\ messages # <<>>
    /\ cache[req.sheet].present /\ cache[req.sheet].isNone

\* ------------------------------------------------------------------ C9
\* C9: after a request that failed to load a sheet, the next request for the
\* same sheet made while the store is healthy runs the load again and does
\* not end in a load failure.
C9_RetryAfterFixLoadsAfresh ==
  [][(/\ outcome = "load_failed"
      /\ \E n \in InputNames \ {<<>>}, e \in InputEmails \ {<<>>} :
           Analyze(req.sheet, n, e, CondOk))
       => (loaded' /\ outcome' # "load_failed")]_vars

\* ------------------------------------------------------------------ C10
\* C10: the remediation shown for an API error follows the kind of failure:
\* an error whose text says the API has not been used or is not enabled gets
\* the enable-the-API remediation, and a permission error gets the
\* share-the-sheet remediation, whatever status and text come together.
C10_RemedyFollowsFailureKind ==
  (loaded /\ outcome = "load_failed" /\ cond.kind = "api" /\ cond.error = "object") =>
    IF Contains(cond.message, "API has not been used") \/ Contains(cond.message, "is not enabled")
    THEN Contains(messages, "remedy:enable_api")
    ELSE cond.status = "PERMISSION_DENIED" => Contains(messages, "remedy:share_sheet")

====
